---------------------------- MODULE Spec2Model ----------------------------
(***************************************************************************)
(* CalibratorModel (src/CalibratorModel.py): the episode controller that   *)
(* couples the neural-network predictor and the GreenLight simulator.      *)
(*                                                                         *)
(* One controller object is one record (variable self): its attributes,    *)
(* the exchange files it shares with the simulator, and the outcome of the *)
(* last operation called on it.  Every method is an operator from records  *)
(* to records; an exception is the field err, set at the statement that    *)
(* raises, after which the remaining statements of the call are skipped.   *)
(*                                                                         *)
(* Numbers are integers: an action component is in tenths (5 is 0.5), a    *)
(* reward is in thousandths (5 is 0.005), a day offset and an epoch        *)
(* duration are in units of 1/72 day, a measurement is in fixed-point      *)
(* units of its quantity.                                                  *)
(***************************************************************************)
EXTENDS Integers, Sequences, FiniteSets, TLC

VARIABLES self, twin, hist

vars == <<self, twin, hist>>

---------------------------------------------------------------------------
(* Bounds of the exploration *)

\* step() calls explored after construction
MaxCalls == 2
\* calls explored per run besides the step() calls that return: reset(),
\* observation(), done() and get_reward() of the caller, a step() that raises
MaxDetours == 1
\* the largest configured max_steps explored
MaxMaxSteps == 2
\* rows of the historical dataset: two full windows of 4 rows, then a
\* short one
DatasetRows == 10
\* the most samples a simulator output file holds
MaxSamples == 5

---------------------------------------------------------------------------
(* Sequences as numpy uses them *)

\* seq[-k:]
LastK(seq, k) ==
  IF Len(seq) <= k THEN seq ELSE SubSeq(seq, Len(seq) - k + 1, Len(seq))

\* seq[-1], defined for a non-empty seq
Last(seq) == seq[Len(seq)]

\* [v] * 4 and np.full(4, v)
Full4(v) == <<v, v, v, v>>

\* np.linspace(300, 1200, 4)
linspace_300_1200_4 == <<300, 600, 900, 1200>>

IsPrefix(a, b) == Len(a) <= Len(b) /\ SubSeq(b, 1, Len(a)) = a

Max(a, b) == IF a >= b THEN a ELSE b

\* spacing of single-precision numbers around x >= 0 (24-bit significand)
RECURSIVE Float32Ulp(_)
Float32Ulp(x) == IF x < 16777216 THEN 1 ELSE 2 * Float32Ulp(x \div 2)

\* np.float32(x) for x >= 0: round to nearest representable, ties to even
Float32(x) ==
  LET u == Float32Ulp(x)
      q == x \div u
      r == x % u
  IN  IF 2 * r < u THEN q * u
      ELSE IF 2 * r > u THEN (q + 1) * u
      ELSE IF q % 2 = 0 THEN q * u ELSE (q + 1) * u

---------------------------------------------------------------------------
(* The historical dataset (self.mgh_data) *)

ExcelColumns ==
  <<"time", "global out", "global in", "temp in", "temp out", "rh in",
    "rh out", "co2 in", "co2 out", "toplights", "ventilation", "heater">>

\* Measurement values of the dataset lie in 3000..3999; row indices are
\* 0-based as in iloc.  The variant selects the measured inside climate
\* (the columns "global in", "temp in", "rh in", "co2 in").
ExcelValue(variant, col, i) == 3000 + 500 * variant + 10 * col + (i % 7)

\* Recorded control values: rows 0..3 ventilate, rows 4..7 light and heat
\* (the heater pauses in row 6), later rows alternate.
DatasetVentilation(i) == IF i < 4 THEN 1 ELSE IF i < 8 THEN 0 ELSE i % 2
DatasetToplights(i) == IF i < 4 THEN 0 ELSE IF i < 8 THEN 1 ELSE (i + 1) % 2
DatasetHeater(i) == IF i < 4 \/ i = 6 THEN 0 ELSE 1

DatasetRow(variant, i) ==
  [time |-> 300 * i,
   global_out |-> ExcelValue(0, 1, i),
   global_in |-> ExcelValue(variant, 2, i),
   temp_in |-> ExcelValue(variant, 3, i),
   temp_out |-> ExcelValue(0, 4, i),
   rh_in |-> ExcelValue(variant, 5, i),
   rh_out |-> ExcelValue(0, 6, i),
   co2_in |-> ExcelValue(variant, 7, i),
   co2_out |-> ExcelValue(0, 8, i),
   toplights |-> DatasetToplights(i),
   ventilation |-> DatasetVentilation(i),
   heater |-> DatasetHeater(i)]

\* pd.read_excel(file_path): a table of nrows rows
Dataset(variant, nrows) == [i \in 1..nrows |-> DatasetRow(variant, i - 1)]

\* mgh_data.iloc[a:b]: the rows a..b-1 that exist, silently fewer at the end
iloc(data, a, b) ==
  LET lo == IF a > Len(data) THEN Len(data) ELSE a
      hi == IF b > Len(data) THEN Len(data) ELSE b
  IN  SubSeq(data, lo + 1, hi)

\* frame[col].values
Column(frame, col) ==
  [i \in 1..Len(frame) |->
     CASE col = "time" -> frame[i].time
       [] col = "global out" -> frame[i].global_out
       [] col = "global in" -> frame[i].global_in
       [] col = "temp in" -> frame[i].temp_in
       [] col = "temp out" -> frame[i].temp_out
       [] col = "rh in" -> frame[i].rh_in
       [] col = "rh out" -> frame[i].rh_out
       [] col = "co2 in" -> frame[i].co2_in
       [] col = "co2 out" -> frame[i].co2_out
       [] col = "toplights" -> frame[i].toplights
       [] col = "ventilation" -> frame[i].ventilation
       [] col = "heater" -> frame[i].heater]

---------------------------------------------------------------------------
(* The two external collaborators, as the controller sees them *)

NoError == "none"

\* What one predictor invocation does: the four models load and predict, or
\* loading or predicting raises.
PredictorOutcomes == {"ok", "fail"}

\* Predicted values lie in 2000..2999.  A trained model is a function of
\* the feature columns of a row (line 210: time, the outside measurements
\* and the three controls) and of the artifact it was loaded from.
NnValue(artifact, target, row) ==
  2000 + 100 * target + 50 * artifact
       + row.ventilation + 2 * row.toplights + 4 * row.heater
       + 8 * (row.global_out % 3)

\* loaded_model.predict(scaler.transform(data_input[features])): one
\* prediction per row of the feature window
predict_inside_measurements(artifact, target, data_input) ==
  [i \in 1..Len(data_input) |-> NnValue(artifact, target, data_input[i])]

\* Names in drl-env.mat, in the order the controller reads them
GlNames ==
  <<"time", "co2_in", "temp_in", "rh_in", "PAR_in", "fruit_leaf",
    "fruit_stem", "fruit_dw", "fruit_cbuf", "fruit_tcansum">>

\* Simulated values lie in 1000..1999 (a flat trajectory, seed 0) or just
\* above 2^24 (a rising trajectory, seed 1).
GlValue(q, seed, i) ==
  IF seed = 0 THEN 1000 + 50 * q ELSE 16777216 + 50 * q + i

\* One array of drl-env.mat: n samples of quantity q
GlArray(q, seed, n) == [i \in 1..n |-> GlValue(q, seed, i)]

\* The content of drl-env.mat after one simulation: every name holds the
\* same number of samples, one per simulated sub-step.
DrlEnvMat(seed, n) ==
  [time |-> GlArray(0, seed, n),
   co2_in |-> GlArray(1, seed, n),
   temp_in |-> GlArray(2, seed, n),
   rh_in |-> GlArray(3, seed, n),
   PAR_in |-> GlArray(4, seed, n),
   fruit_leaf |-> GlArray(5, seed, n),
   fruit_stem |-> GlArray(6, seed, n),
   fruit_dw |-> GlArray(7, seed, n),
   fruit_cbuf |-> GlArray(8, seed, n),
   fruit_tcansum |-> GlArray(9, seed, n)]

\* What one simulator invocation does: it raises, or it writes drl-env.mat
\* with n samples, or it never responds.  The epoch of 20 minutes sampled every 5 minutes gives 5
\* samples (the initial one and 4 sub-steps); shorter files are explored too.
SimOutcomes ==
  {[responds |-> TRUE, ok |-> FALSE, seed |-> 0, n |-> 0]}
  \cup {[responds |-> TRUE, ok |-> TRUE, seed |-> 0, n |-> 2]}
  \cup {[responds |-> TRUE, ok |-> TRUE, seed |-> 1, n |-> MaxSamples]}
  \cup {[responds |-> FALSE, ok |-> FALSE, seed |-> 0, n |-> 0]}

\* Actions a caller passes to step(): None, a Python list, a numpy array
NoneAction == [kind |-> "None", v |-> <<>>]

ActionInputs ==
  {NoneAction,
   [kind |-> "list", v |-> <<4, 6, 10>>],
   [kind |-> "list", v |-> <<5, 0, 0>>],
   [kind |-> "list", v |-> <<15, 0, 0>>],
   [kind |-> "list", v |-> <<7>>],
   [kind |-> "ndarray", v |-> <<5, 5, 5>>]}

---------------------------------------------------------------------------
(* The controller object *)

\* A local variable: F of the value v, which is computed once
With(v, F(_)) == F(v)

Raise(s, e) == [s EXCEPT !.err = e]

\* The mark of a call that is still waiting in the engine call of line 302:
\* it has neither returned nor raised, and the statements after it are not
\* reached
NoReturn == "no return"

\* The caller is inside a call that never comes back
WaitingForever(s) == s.err = NoReturn

\* An external call, a file operation or a landmark statement of step(),
\* recorded in the order it happens
Ev(s, e) == [s EXCEPT !.trace = Append(@, e)]

\* hasattr(self, name)
hasattr(s, name) == name \in s.attrs

\* Concat that assigns the new batch over the buffer
Concat_overwrite(exists, old, new) == new

\* The first assignment of a buffer, or np.concatenate((old, new))
Concat(exists, old, new) == IF exists THEN old \o new ELSE new

\* The object as __init__ has it after lines 80-129, and the working
\* directory it starts in.  cfg is env_config plus what the machine holds:
\* whether the MATLAB script is at its path, the dataset at file_path, the
\* predictor artifacts under nn-model/, a drl-env.mat left by an earlier
\* process.
NewObject(cfg) ==
  [flag_run |-> cfg.flag_run,
   online_measurements |-> cfg.online_measurements,
   flag_action_from_drl |-> cfg.flag_action_from_drl,
   first_day_gl |-> cfg.first_day,
   season_length_gl |-> cfg.season_length_gl,
   season_length_nn |-> cfg.season_length_nn,
   max_steps |-> cfg.max_steps,
   mgh_data |-> cfg.mgh_data,
   nn_model |-> cfg.nn_model,
   ventilation_list |-> <<>>,
   toplights_list |-> <<>>,
   heater_list |-> <<>>,
   rewards_list |-> Full4(0),
   attrs |-> {},
   step_data |-> <<>>,
   time_excel |-> <<>>,
   global_out_excel |-> <<>>,
   global_in_excel |-> <<>>,
   temp_in_excel |-> <<>>,
   temp_out_excel |-> <<>>,
   rh_in_excel |-> <<>>,
   rh_out_excel |-> <<>>,
   co2_in_excel |-> <<>>,
   co2_out_excel |-> <<>>,
   toplights |-> <<>>,
   ventilation |-> <<>>,
   heater |-> <<>>,
   par_in_predicted_nn |-> <<>>,
   temp_in_predicted_nn |-> <<>>,
   rh_in_predicted_nn |-> <<>>,
   co2_in_predicted_nn |-> <<>>,
   time_gl |-> <<>>,
   co2_in_predicted_gl |-> <<>>,
   temp_in_predicted_gl |-> <<>>,
   rh_in_predicted_gl |-> <<>>,
   PAR_in_predicted_gl |-> <<>>,
   fruit_leaf_predicted_gl |-> <<>>,
   fruit_stem_predicted_gl |-> <<>>,
   fruit_dw_predicted_gl |-> <<>>,
   fruit_cbuf_predicted_gl |-> <<>>,
   fruit_tcansum_predicted_gl |-> <<>>,
   current_step |-> 0,
   \* the working directory and the external channels
   files |-> IF cfg.stale_drl_env THEN {"drl-env.mat"} ELSE {},
   controls_mat |-> [time |-> <<>>, ventilation |-> <<>>,
                    toplights |-> <<>>, heater |-> <<>>],
   indoor_mat |-> [time |-> <<>>, temp_in |-> <<>>, rh_in |-> <<>>,
                  co2_in |-> <<>>],
   fruit_mat |-> [time |-> <<>>, fruit_leaf |-> <<>>, fruit_stem |-> <<>>,
                 fruit_dw |-> <<>>, fruit_cbuf |-> <<>>,
                 fruit_tcansum |-> <<>>],
   drl_env_mat |-> DrlEnvMat(cfg.stale_seed, cfg.stale_n),
   matlab_args |-> [season_length |-> 0, first_day |-> 0,
                   controls_file |-> "", outdoor_file |-> "",
                   indoor_file |-> "", fruit_file |-> ""],
   published |-> 0,
   exports |-> 0,
   \* the last operation and what it returned
   op |-> "__init__",
   err |-> NoError,
   trace |-> <<>>,
   obs |-> <<>>,
   reward |-> 0,
   terminated |-> FALSE]

\* A call begins: nothing raised, recorded or returned yet
Begin(s, name) ==
  [s EXCEPT !.op = name, !.err = NoError, !.trace = <<>>,
            !.obs = <<>>, !.reward = 0, !.terminated = FALSE]

\* The control vector as saved to controls.mat
ControlVector(time_steps, ventilation, toplights, heater) ==
  [time |-> time_steps, ventilation |-> ventilation,
   toplights |-> toplights, heater |-> heater]

\* init_controls(), lines 268-286
init_controls(s) ==
  LET controls == ControlVector(linspace_300_1200_4, Full4(0), Full4(0), Full4(0))
  IN  Ev([s EXCEPT
            !.ventilation_list = @ \o LastK(controls.ventilation, 4),
            !.toplights_list = @ \o LastK(controls.toplights, 4),
            !.heater_list = @ \o LastK(controls.heater, 4),
            !.controls_mat = controls,
            !.files = @ \cup {"controls.mat"}],
         "savemat controls.mat")

\* service_functions.get_outdoor_measurements(): fetches the outdoor
\* measurements the simulator reads from outdoor.mat
get_outdoor_measurements(s) ==
  IF s.err # NoError THEN s
  ELSE Ev([s EXCEPT !.files = @ \cup {"outdoor.mat"}], "get_outdoor_measurements")

\* run_matlab_script that swallows a failure of the simulator: the output
\* file of an earlier run, if any, stays in place
run_matlab_script_silent(s, outdoor_file, indoor_file, fruit_file, sim) ==
  IF s.err # NoError THEN s
  ELSE
    With(Ev([s EXCEPT !.matlab_args =
                [season_length |-> s.season_length_gl,
                 first_day |-> s.first_day_gl,
                 controls_file |-> "controls.mat",
                 outdoor_file |-> outdoor_file,
                 indoor_file |-> indoor_file,
                 fruit_file |-> fruit_file]],
            "DrlGlEnvironment"),
         LAMBDA called :
           IF ~sim.responds THEN Raise(called, NoReturn)
           ELSE IF ~sim.ok THEN called
           ELSE [called EXCEPT !.files = @ \cup {"drl-env.mat"},
                               !.drl_env_mat = DrlEnvMat(sim.seed, sim.n)])

\* run_matlab_script(outdoor_file, indoor_file, fruit_file), lines 288-302;
\* a file not given is passed as the empty list.  sim is what the engine
\* call does this time.
run_matlab_script(s, outdoor_file, indoor_file, fruit_file, sim) ==
  IF s.err # NoError THEN s
  ELSE
    With(Ev([s EXCEPT !.matlab_args =
                [season_length |-> s.season_length_gl,
                 first_day |-> s.first_day_gl,
                 controls_file |-> "controls.mat",
                 outdoor_file |-> outdoor_file,
                 indoor_file |-> indoor_file,
                 fruit_file |-> fruit_file]],
            "DrlGlEnvironment"),
         LAMBDA called :
           IF ~sim.responds THEN Raise(called, NoReturn)
           ELSE IF ~sim.ok THEN Raise(called, "MatlabExecutionError")
           ELSE [called EXCEPT !.files = @ \cup {"drl-env.mat"},
                               !.drl_env_mat = DrlEnvMat(sim.seed, sim.n)])

\* The truth value of "_action_drl != None" (line 325): a list compares
\* unequal to None; a numpy array compares element by element, and the
\* truth value of an array of several elements raises ValueError.
ActionIsNotNone(a) ==
  CASE a.kind = "None" -> "False"
    [] a.kind = "list" -> "True"
    [] a.kind = "ndarray" ->
         IF Len(a.v) > 1 THEN "ValueError"
         ELSE IF Len(a.v) = 1 THEN "True" ELSE "False"

\* The threshold with a strict comparison
Threshold_strict(x) == IF x > 5 THEN 1 ELSE 0

\* 1 if x >= 0.5 else 0 (lines 328-330 and 648-650), x in tenths
Threshold(x) == IF x >= 5 THEN 1 ELSE 0

\* step_data with the three control columns overwritten (lines 337-339)
WithControls(frame, ventilation, toplights, heater) ==
  [i \in 1..Len(frame) |->
     [frame[i] EXCEPT !.toplights = toplights[i],
                      !.ventilation = ventilation[i],
                      !.heater = heater[i]]]

\* The append of lines 352-379, for a window whose control columns are the
\* given new_* values
AppendExcel(s, frame, new_toplights, new_ventilation, new_heater) ==
  LET exists == hasattr(s, "time_excel")
  IN  [s EXCEPT
        !.step_data = frame,
        !.time_excel = Concat(exists, @, Column(frame, "time")),
        !.global_out_excel = Concat(exists, @, Column(frame, "global out")),
        !.global_in_excel = Concat(exists, @, Column(frame, "global in")),
        !.temp_in_excel = Concat(exists, @, Column(frame, "temp in")),
        !.temp_out_excel = Concat(exists, @, Column(frame, "temp out")),
        !.rh_in_excel = Concat(exists, @, Column(frame, "rh in")),
        !.rh_out_excel = Concat(exists, @, Column(frame, "rh out")),
        !.co2_in_excel = Concat(exists, @, Column(frame, "co2 in")),
        !.co2_out_excel = Concat(exists, @, Column(frame, "co2 out")),
        !.toplights = Concat(exists, @, new_toplights),
        !.ventilation = Concat(exists, @, new_ventilation),
        !.heater = Concat(exists, @, new_heater),
        !.attrs = @ \cup {"time_excel"}]

\* load_excel_data(_action_drl), lines 304-379
\* The window of 4 rows is sliced (lines 311-312); then the branch of line
\* 325 on sliced, the object holding the window
LoadWindow(sliced, a) ==
  With(IF sliced.flag_action_from_drl THEN ActionIsNotNone(a) ELSE "False",
       LAMBDA notNone :
         IF notNone = "ValueError" THEN Raise(sliced, "ValueError")
         ELSE IF notNone = "True" THEN
           \* the actions of the DRL model, thresholded and repeated 4 times
           IF Len(a.v) < 3 THEN Raise(sliced, "IndexError")
           ELSE IF Len(sliced.step_data) # 4 THEN Raise(sliced, "ValueError")
           ELSE
             With(WithControls(sliced.step_data,
                               Full4(Threshold(a.v[1])),
                               Full4(Threshold(a.v[2])),
                               Full4(Threshold(a.v[3]))),
                  LAMBDA frame :
                    AppendExcel(sliced, frame, Column(frame, "toplights"),
                                Column(frame, "ventilation"),
                                Column(frame, "heater")))
         ELSE
           \* the actions of the offline dataset
           AppendExcel(sliced, sliced.step_data,
                       Column(sliced.step_data, "toplights"),
                       Column(sliced.step_data, "ventilation"),
                       Column(sliced.step_data, "heater")))

load_excel_data(s, a) ==
  IF s.err # NoError THEN s
  ELSE LoadWindow([s EXCEPT !.step_data =
                     iloc(s.mgh_data, s.season_length_nn,
                          s.season_length_nn + 4)],
                  a)

\* predicted_inside_measurements_nn(_action_drl), lines 381-421.  nnOut is
\* what the predictor does this time.
\* Lines 389-411: the four predictions and their append; a predictor that
\* raises leaves the buffers of the predictor as they were
AppendNn(called, nnOut) ==
  IF nnOut # "ok" THEN Raise(called, "PredictorError")
  ELSE
    LET exists == hasattr(called, "temp_in_predicted_nn")
        new_par == predict_inside_measurements(called.nn_model, 1, called.step_data)
        new_temp == predict_inside_measurements(called.nn_model, 2, called.step_data)
        new_rh == predict_inside_measurements(called.nn_model, 3, called.step_data)
        new_co2 == predict_inside_measurements(called.nn_model, 4, called.step_data)
    IN  [called EXCEPT
          !.par_in_predicted_nn = Concat(exists, @, new_par),
          !.temp_in_predicted_nn = Concat(exists, @, new_temp),
          !.rh_in_predicted_nn = Concat(exists, @, new_rh),
          !.co2_in_predicted_nn = Concat(exists, @, new_co2),
          !.attrs = @ \cup {"temp_in_predicted_nn"}]

predicted_inside_measurements_nn(s, a, nnOut) ==
  With(load_excel_data(s, a),
       LAMBDA loaded :
         IF loaded.err # NoError THEN loaded
         ELSE AppendNn(Ev(loaded, "predict_inside_measurements"), nnOut))

\* predicted_inside_measurements_gl(), lines 423-468
predicted_inside_measurements_gl(s) ==
  IF s.err # NoError THEN s
  ELSE IF "drl-env.mat" \notin s.files THEN Raise(s, "FileNotFoundError")
  ELSE
    LET data == s.drl_env_mat
        exists == hasattr(s, "time_gl")
    IN  Ev([s EXCEPT
              !.time_gl = Concat(exists, @, LastK(data.time, 4)),
              !.co2_in_predicted_gl = Concat(exists, @, LastK(data.co2_in, 4)),
              !.temp_in_predicted_gl = Concat(exists, @, LastK(data.temp_in, 4)),
              !.rh_in_predicted_gl = Concat(exists, @, LastK(data.rh_in, 4)),
              !.PAR_in_predicted_gl = Concat(exists, @, LastK(data.PAR_in, 4)),
              !.fruit_leaf_predicted_gl = Concat(exists, @, LastK(data.fruit_leaf, 4)),
              !.fruit_stem_predicted_gl = Concat(exists, @, LastK(data.fruit_stem, 4)),
              !.fruit_dw_predicted_gl = Concat(exists, @, LastK(data.fruit_dw, 4)),
              !.fruit_cbuf_predicted_gl = Concat(exists, @, LastK(data.fruit_cbuf, 4)),
              !.fruit_tcansum_predicted_gl = Concat(exists, @, LastK(data.fruit_tcansum, 4)),
              !.attrs = @ \cup {"time_gl"}],
           "loadmat drl-env.mat")

\* The nine buffers observation() reads, in the order of lines 507-517
ObservedBuffers(s) ==
  <<s.co2_in_predicted_gl, s.temp_in_predicted_gl, s.rh_in_predicted_gl,
    s.PAR_in_predicted_gl, s.fruit_leaf_predicted_gl,
    s.fruit_stem_predicted_gl, s.fruit_dw_predicted_gl,
    s.fruit_cbuf_predicted_gl, s.fruit_tcansum_predicted_gl>>

\* observation that takes the temperature from the predictor's buffer
observation_predicted(s) ==
  IF s.err # NoError THEN s
  ELSE
    LET bufs == ObservedBuffers(s)
    IN  IF \E k \in 1..Len(bufs) : bufs[k] = <<>> THEN Raise(s, "IndexError")
        ELSE [s EXCEPT !.obs = [k \in 1..Len(bufs) |->
                                  IF k = 2
                                  THEN Float32(Last(s.temp_in_predicted_nn))
                                  ELSE Float32(Last(bufs[k]))]]

\* observation with temperature and CO2 exchanged
observation_swapped(s) ==
  IF s.err # NoError THEN s
  ELSE
    LET bufs == ObservedBuffers(s)
        order == <<2, 1, 3, 4, 5, 6, 7, 8, 9>>
    IN  IF \E k \in 1..Len(bufs) : bufs[k] = <<>> THEN Raise(s, "IndexError")
        ELSE [s EXCEPT !.obs = [k \in 1..Len(bufs) |-> Float32(Last(bufs[order[k]]))]]

\* observation(), lines 482-517: np.array([...], np.float32) of the last
\* value of each buffer; indexing an empty buffer raises IndexError
observation(s) ==
  IF s.err # NoError THEN s
  ELSE
    LET bufs == ObservedBuffers(s)
    IN  IF \E k \in 1..Len(bufs) : bufs[k] = <<>> THEN Raise(s, "IndexError")
        ELSE [s EXCEPT !.obs = [k \in 1..Len(bufs) |-> Float32(Last(bufs[k]))]]

\* reset that keeps the epoch counter
reset_keep(s) ==
  IF s.err # NoError THEN s
  ELSE observation([s EXCEPT !.season_length_nn = @ + 4])

\* reset that starts the reward sequence and the control-action sequences
\* afresh
reset_fresh(s) ==
  IF s.err # NoError THEN s
  ELSE observation([s EXCEPT !.current_step = 0,
                             !.season_length_nn = @ + 4,
                             !.rewards_list = <<>>,
                             !.ventilation_list = <<>>,
                             !.toplights_list = <<>>,
                             !.heater_list = <<>>])

\* reset(), lines 470-480
reset(s) ==
  IF s.err # NoError THEN s
  ELSE observation([s EXCEPT !.current_step = 0,
                             !.season_length_nn = @ + 4])

\* The coefficients of the reward, lines 549-552 (a1..a3 in thousandths)
w_r_y1 == 1
w_r_a1 == 5
w_r_a2 == 15
w_r_a3 == 1

\* get_reward with the penalties of ventilation and of toplights exchanged
get_reward_exchanged(s, ventilation, toplights, heater) ==
  IF s.err # NoError THEN s
  ELSE IF s.current_step = 0 THEN [s EXCEPT !.reward = 0]
  ELSE IF Len(s.fruit_dw_predicted_gl) < 2 THEN Raise(s, "IndexError")
  ELSE
    LET dw == s.fruit_dw_predicted_gl
        delta_fruit_dw == dw[Len(dw)] - dw[Len(dw) - 1]
    IN  [s EXCEPT !.reward =
           1000 * w_r_y1 * delta_fruit_dw
           - ((w_r_a2 * ventilation) + (w_r_a1 * toplights) + (w_r_a3 * heater))]

\* get_reward without the branch of the initial epoch
get_reward_no_initial(s, ventilation, toplights, heater) ==
  IF s.err # NoError THEN s
  ELSE IF Len(s.fruit_dw_predicted_gl) < 2 THEN Raise(s, "IndexError")
  ELSE
    LET dw == s.fruit_dw_predicted_gl
        delta_fruit_dw == dw[Len(dw)] - dw[Len(dw) - 1]
    IN  [s EXCEPT !.reward =
           1000 * w_r_y1 * delta_fruit_dw
           - ((w_r_a1 * ventilation) + (w_r_a2 * toplights) + (w_r_a3 * heater))]

\* get_reward(_ventilation, _toplights, _heater), lines 519-568, in
\* thousandths
get_reward(s, ventilation, toplights, heater) ==
  IF s.err # NoError THEN s
  ELSE IF s.current_step = 0 THEN [s EXCEPT !.reward = 0]
  ELSE IF Len(s.fruit_dw_predicted_gl) < 2 THEN Raise(s, "IndexError")
  ELSE
    LET dw == s.fruit_dw_predicted_gl
        delta_fruit_dw == dw[Len(dw)] - dw[Len(dw) - 1]
    IN  [s EXCEPT !.reward =
           1000 * w_r_y1 * delta_fruit_dw
           - ((w_r_a1 * ventilation) + (w_r_a2 * toplights) + (w_r_a3 * heater))]

\* os.remove of each name in turn; a missing file raises FileNotFoundError
\* and leaves the later ones in place
RECURSIVE RemoveFiles(_, _)
RemoveFiles(s, names) ==
  IF s.err # NoError \/ names = <<>> THEN s
  ELSE IF Head(names) \notin s.files THEN Raise(s, "FileNotFoundError")
  ELSE RemoveFiles(Ev([s EXCEPT !.files = @ \ {Head(names)}], "os.remove"),
                   Tail(names))

\* delete_files(), lines 570-580
delete_files(s) ==
  RemoveFiles(s, <<"controls.mat", "drl-env.mat", "indoor.mat", "fruit.mat">>
                 \o (IF s.online_measurements THEN <<"outdoor.mat">> ELSE <<>>))

\* metrics.r2_score and metrics.mean_absolute_error accept two sequences of
\* one length, and not empty ones (lines 861-864)
calculate_metrics_ok(y_true, y_pred) ==
  Len(y_true) = Len(y_pred) /\ Len(y_true) > 0

\* evaluate_predictions(), lines 838-888: whether every metric is computed
evaluate_predictions_ok(s) ==
  /\ calculate_metrics_ok(s.global_in_excel, s.par_in_predicted_nn)
  /\ calculate_metrics_ok(s.temp_in_excel, s.temp_in_predicted_nn)
  /\ calculate_metrics_ok(s.rh_in_excel, s.rh_in_predicted_nn)
  /\ calculate_metrics_ok(s.co2_in_excel, s.co2_in_predicted_nn)
  /\ calculate_metrics_ok(s.global_in_excel, s.PAR_in_predicted_gl)
  /\ calculate_metrics_ok(s.temp_in_excel, s.temp_in_predicted_gl)
  /\ calculate_metrics_ok(s.rh_in_excel, s.rh_in_predicted_gl)
  /\ calculate_metrics_ok(s.co2_in_excel, s.co2_in_predicted_gl)

\* print_and_save_all_data(file_name), lines 762-835
print_and_save_all_data(s) ==
  IF s.err # NoError THEN s
  ELSE IF ~evaluate_predictions_ok(s) THEN Raise(s, "ValueError")
  ELSE Ev([s EXCEPT !.exports = @ + 1], "export_to_excel")

\* done that compares with > instead of >=
done_strict(s) ==
  IF s.err # NoError THEN s
  ELSE IF s.flag_run THEN
    IF s.current_step > s.max_steps
    THEN With(delete_files(print_and_save_all_data(Ev(s, "done"))),
              LAMBDA cleaned :
                IF cleaned.err # NoError THEN cleaned
                ELSE [cleaned EXCEPT !.terminated = TRUE])
    ELSE Ev([s EXCEPT !.terminated = FALSE], "done")
  ELSE
    IF s.current_step > s.max_steps
    THEN Ev([s EXCEPT !.terminated = TRUE], "done")
    ELSE Ev([s EXCEPT !.terminated = FALSE], "done")

\* done that compares with = instead of >=
done_exact(s) ==
  IF s.err # NoError THEN s
  ELSE IF s.flag_run THEN
    IF s.current_step = s.max_steps
    THEN With(delete_files(print_and_save_all_data(Ev(s, "done"))),
              LAMBDA cleaned :
                IF cleaned.err # NoError THEN cleaned
                ELSE [cleaned EXCEPT !.terminated = TRUE])
    ELSE Ev([s EXCEPT !.terminated = FALSE], "done")
  ELSE
    IF s.current_step = s.max_steps
    THEN Ev([s EXCEPT !.terminated = TRUE], "done")
    ELSE Ev([s EXCEPT !.terminated = FALSE], "done")

\* done(), lines 582-614
done(s) ==
  IF s.err # NoError THEN s
  ELSE IF s.flag_run THEN
    IF s.current_step >= s.max_steps
    THEN With(delete_files(print_and_save_all_data(Ev(s, "done"))),
              LAMBDA cleaned :
                IF cleaned.err # NoError THEN cleaned
                ELSE [cleaned EXCEPT !.terminated = TRUE])
    ELSE Ev([s EXCEPT !.terminated = FALSE], "done")
  ELSE
    IF s.current_step >= s.max_steps
    THEN Ev([s EXCEPT !.terminated = TRUE], "done")
    ELSE Ev([s EXCEPT !.terminated = FALSE], "done")

\* Unit conversions of utils.ServiceFunctions, kept as terms over their
\* arguments: the density of CO2 at a temperature, the vapour pressure of a
\* relative humidity at a temperature (lines 705-710)
co2ppm_to_dens(temp, ppm) ==
  [i \in 1..Len(temp) |-> <<"co2_density", temp[i], ppm[i]>>]

rh_to_vapor_density(temp, rh) ==
  [i \in 1..Len(temp) |-> <<"vapor_density", temp[i], rh[i]>>]

vapor_density_to_pressure(temp, dens) ==
  [i \in 1..Len(temp) |-> <<"vapor_pressure", temp[i], dens[i]>>]

\* The control values of one step, lines 643-662: thresholded from the
\* action, or the last 4 recorded values of the dataset buffers
StepControls(s, a) ==
  IF s.flag_action_from_drl THEN
    IF a.kind = "None" THEN
      [err |-> "TypeError", ventilation |-> <<>>, toplights |-> <<>>, heater |-> <<>>]
    ELSE IF Len(a.v) < 3 THEN
      [err |-> "IndexError", ventilation |-> <<>>, toplights |-> <<>>, heater |-> <<>>]
    ELSE
      [err |-> NoError,
       ventilation |-> Full4(Threshold(a.v[1])),
       toplights |-> Full4(Threshold(a.v[2])),
       heater |-> Full4(Threshold(a.v[3]))]
  ELSE
    [err |-> NoError,
     ventilation |-> LastK(s.ventilation, 4),
     toplights |-> LastK(s.toplights, 4),
     heater |-> LastK(s.heater, 4)]

\* Publish in whatever mode the controller is configured
Publish_always(listed) ==
  Ev([listed EXCEPT !.published = @ + 1], "publish_mqtt_data")

\* Lines 675-683: the controls are published when measuring online
Publish(listed) ==
  IF listed.online_measurements
  THEN Ev([listed EXCEPT !.published = @ + 1], "publish_mqtt_data")
  ELSE listed

\* RecordControls with timestamps that run on from one epoch to the next
RecordControls_running(s, c) ==
  Ev([Publish([s EXCEPT
                 !.ventilation_list = @ \o LastK(c.ventilation, 4),
                 !.toplights_list = @ \o LastK(c.toplights, 4),
                 !.heater_list = @ \o LastK(c.heater, 4)])
        EXCEPT
          !.controls_mat =
            ControlVector([k \in 1..4 |->
                             linspace_300_1200_4[k] + 1200 * (s.current_step - 1)],
                          c.ventilation, c.toplights, c.heater),
          !.files = @ \cup {"controls.mat"}],
     "savemat controls.mat")

\* Lines 669-694: record the controls, publish them when online, save
\* controls.mat
RecordControls(s, c) ==
  Ev([Publish([s EXCEPT
                 !.ventilation_list = @ \o LastK(c.ventilation, 4),
                 !.toplights_list = @ \o LastK(c.toplights, 4),
                 !.heater_list = @ \o LastK(c.heater, 4)])
        EXCEPT
          !.controls_mat = ControlVector(linspace_300_1200_4, c.ventilation,
                                         c.toplights, c.heater),
          !.files = @ \cup {"controls.mat"}],
     "savemat controls.mat")

\* Lines 696-703: the epoch of the simulator, its day offset, the cursor
AdvanceTime(s) ==
  [s EXCEPT !.season_length_gl = 1,
            !.first_day_gl = @ + 1,
            !.season_length_nn = @ + 4]

\* Lines 705-735: the last 3 indoor sub-steps and the last crop state, saved
\* to indoor.mat and fruit.mat
SaveState(s) ==
  LET temp == LastK(s.temp_in_predicted_gl, 4)
      co2_density_gl == co2ppm_to_dens(temp, LastK(s.co2_in_predicted_gl, 4))
      vapor_density_gl == rh_to_vapor_density(temp, LastK(s.rh_in_predicted_gl, 4))
      vapor_pressure_gl == vapor_density_to_pressure(temp, vapor_density_gl)
      indoor == Ev([s EXCEPT
                      !.indoor_mat = [time |-> LastK(s.time_gl, 3),
                                      temp_in |-> LastK(s.temp_in_predicted_gl, 3),
                                      rh_in |-> LastK(vapor_pressure_gl, 3),
                                      co2_in |-> LastK(co2_density_gl, 3)],
                      !.files = @ \cup {"indoor.mat"}],
                   "savemat indoor.mat")
  IN  Ev([indoor EXCEPT
            !.fruit_mat = [time |-> LastK(s.time_gl, 1),
                           fruit_leaf |-> LastK(s.fruit_leaf_predicted_gl, 1),
                           fruit_stem |-> LastK(s.fruit_stem_predicted_gl, 1),
                           fruit_dw |-> LastK(s.fruit_dw_predicted_gl, 1),
                           fruit_cbuf |-> LastK(s.fruit_cbuf_predicted_gl, 1),
                           fruit_tcansum |-> LastK(s.fruit_tcansum_predicted_gl, 1)],
            !.files = @ \cup {"fruit.mat"}],
         "savemat fruit.mat")

\* Lines 737-745: the simulator run of a step
Simulate(s, sim) ==
  IF s.online_measurements
  THEN run_matlab_script(get_outdoor_measurements(s), "outdoor.mat",
                         "indoor.mat", "fruit.mat", sim)
  ELSE run_matlab_script(s, "[]", "indoor.mat", "fruit.mat", sim)

\* RecordReward that records the reward once
RecordReward_once(s, c) ==
  IF s.err # NoError THEN s
  ELSE IF c.ventilation = <<>> \/ c.toplights = <<>> \/ c.heater = <<>>
  THEN Raise(s, "IndexError")
  ELSE
    With(get_reward(Ev(s, "get_reward"), c.ventilation[1], c.toplights[1],
                    c.heater[1]),
         LAMBDA rewarded :
           IF rewarded.err # NoError THEN rewarded
           ELSE Ev([rewarded EXCEPT !.rewards_list = Append(@, rewarded.reward)],
                   "rewards_list.extend"))

\* Lines 750-755: the reward of the first sub-step controls, recorded 4 times
RecordReward(s, c) ==
  IF s.err # NoError THEN s
  ELSE IF c.ventilation = <<>> \/ c.toplights = <<>> \/ c.heater = <<>>
  THEN Raise(s, "IndexError")
  ELSE
    With(get_reward(Ev(s, "get_reward"), c.ventilation[1], c.toplights[1],
                    c.heater[1]),
         LAMBDA rewarded :
           IF rewarded.err # NoError THEN rewarded
           ELSE Ev([rewarded EXCEPT !.rewards_list = @ \o Full4(rewarded.reward)],
                   "rewards_list.extend"))

\* step that runs the simulator before it saves indoor.mat and fruit.mat
step_early_simulation(s, a, nnOut, sim) ==
  With(predicted_inside_measurements_nn(
         Ev([s EXCEPT !.current_step = @ + 1], "current_step += 1"),
         a, nnOut),
       LAMBDA predicted :
         IF predicted.err # NoError THEN predicted
         ELSE
           With(StepControls(predicted, a),
                LAMBDA c :
                  IF c.err # NoError THEN Raise(predicted, c.err)
                  ELSE
                    done(observation(RecordReward(
                      predicted_inside_measurements_gl(
                        SaveState(Simulate(AdvanceTime(
                                    RecordControls(predicted, c)),
                                  sim))),
                      c)))))

\* step(_action_drl), lines 616-760
step(s, a, nnOut, sim) ==
  With(predicted_inside_measurements_nn(
         Ev([s EXCEPT !.current_step = @ + 1], "current_step += 1"),
         a, nnOut),
       LAMBDA predicted :
         IF predicted.err # NoError THEN predicted
         ELSE
           With(StepControls(predicted, a),
                LAMBDA c :
                  IF c.err # NoError THEN Raise(predicted, c.err)
                  ELSE
                    done(observation(RecordReward(
                      predicted_inside_measurements_gl(
                        Simulate(SaveState(AdvanceTime(
                                   RecordControls(predicted, c))),
                                 sim)),
                      c)))))

\* Lines 135-154: the controls and the first simulator run, when the
\* MATLAB script is at its path
FirstRun(fresh, script_found, sim) ==
  IF script_found THEN
    IF fresh.online_measurements
    THEN run_matlab_script(get_outdoor_measurements(init_controls(fresh)),
                           "outdoor.mat", "[]", "[]", sim)
    ELSE run_matlab_script(init_controls(fresh), "[]", "[]", "[]", sim)
  ELSE fresh

\* __init__(env_config), lines 69-166.  sim and nnOut are what the first
\* simulator run and the first predictor run do.
Construct(cfg, sim, nnOut) ==
  reset(predicted_inside_measurements_nn(
          predicted_inside_measurements_gl(
            FirstRun(NewObject(cfg), cfg.script_found, sim)),
          NoneAction, nnOut))

---------------------------------------------------------------------------
(* Configurations and the state machine *)

\* env_config and the machine the controller is constructed on.  The day
\* offset is 1 day; the configured epoch is 2/72 day, twice the default.
AllConfigs ==
  [flag_run : BOOLEAN,
   online_measurements : BOOLEAN,
   flag_action_from_drl : BOOLEAN,
   first_day : {72},
   season_length_gl : {2},
   season_length_nn : {0},
   max_steps : 1..MaxMaxSteps,
   script_found : BOOLEAN,
   nrows : {DatasetRows}]

\* Online measurements are taken when running, not when training (line 675)
Configs == {c \in AllConfigs : c.online_measurements => c.flag_run}

\* The simulator outputs a construction succeeds on: observation() needs a
\* sample in every buffer
FirstSimOutcomes == {sim \in SimOutcomes : sim.ok /\ sim.n >= 1}

\* The controller built from a configuration; variant selects the measured
\* inside climate of the dataset and the predictor artifact
Build(c, sim, variant) ==
  Construct([flag_run |-> c.flag_run,
             online_measurements |-> c.online_measurements,
             flag_action_from_drl |-> c.flag_action_from_drl,
             first_day |-> c.first_day,
             season_length_gl |-> c.season_length_gl,
             season_length_nn |-> c.season_length_nn,
             max_steps |-> c.max_steps,
             script_found |-> c.script_found,
             mgh_data |-> Dataset(variant, c.nrows),
             nn_model |-> variant,
             stale_drl_env |-> ~c.script_found,
             stale_seed |-> sim.seed,
             stale_n |-> sim.n],
            sim, "ok")

\* No second controller
NoTwin == [op |-> "absent"]

\* Whether an event is in the record of the last call
Happened(s, e) == \E i \in 1..Len(s.trace) : s.trace[i] = e

\* Whether the controller evaluated done() to True in its last call
SaidDone(s) == s.err = NoError /\ s.op \in {"step", "done"} /\ s.terminated

\* What has been called so far: step() calls since construction (total) and
\* since the last reset (calls); step() calls that returned, that did not
\* (aborts), and that raised after recording their reward (late); reset() calls; done()
\* calls of the caller; observation() and get_reward() calls of the caller
\* (reads); whether done() has returned True ever and since the last reset;
\* the action the last step() call was given, and whether the predictor and
\* the simulator raised in it; the epoch duration of env_config, which the
\* construction leaves in season_length_gl (line 93).
HistInit(s, sim) ==
  [total |-> 0, calls |-> 0, returned |-> 0, aborts |-> 0, late |-> 0,
   resets |-> 0, dones |-> 0, reads |-> 0, was_done |-> FALSE,
   done_in_episode |-> FALSE, action |-> NoneAction, nn_failed |-> FALSE,
   sim_failed |-> FALSE, env_config_season_length_gl |-> s.season_length_gl]

\* The state after a construction that succeeded
Init ==
  \E c \in Configs, sim \in FirstSimOutcomes :
    /\ self = Build(c, sim, 0)
    /\ twin = NoTwin
    /\ self.err = NoError
    /\ hist = HistInit(self, sim)

\* The calls so far other than a step() that returned
Detours == hist.resets + hist.aborts + hist.dones + hist.reads

\* What a step() call is given: the action, and what the predictor and the
\* simulator do in it.  The simulator is not invoked when the predictor
\* raises, so one outcome stands for all of them there.
StepInputs ==
  {i \in [a : ActionInputs, nnOut : PredictorOutcomes, sim : SimOutcomes] :
     i.nnOut = "fail" => (i.sim.responds /\ ~i.sim.ok)}

\* The actions worth telling apart under a configuration: the dataset-driven
\* mode never looks into its action (lines 325 and 657-662), so None and one
\* list stand for all of them there.
ActionsOf(s) ==
  IF s.flag_action_from_drl THEN ActionInputs
  ELSE {NoneAction, [kind |-> "list", v |-> <<4, 6, 10>>]}

AfterStep(r, i) ==
  [hist EXCEPT
     !.action = i.a,
     !.nn_failed = i.nnOut # "ok" /\ Happened(r, "predict_inside_measurements"),
     !.sim_failed = i.sim.responds /\ ~i.sim.ok
                   /\ Happened(r, "DrlGlEnvironment"),
     !.total = @ + 1,
     !.calls = @ + 1,
     !.returned = IF r.err = NoError THEN @ + 1 ELSE @,
     !.aborts = IF r.err = NoError THEN @ ELSE @ + 1,
     !.late = IF r.err # NoError /\ Happened(r, "rewards_list.extend")
              THEN @ + 1 ELSE @,
     !.was_done = @ \/ SaidDone(r),
     !.done_in_episode = @ \/ SaidDone(r)]

AfterDone(r) ==
  [hist EXCEPT
     !.dones = @ + 1,
     !.was_done = @ \/ SaidDone(r),
     !.done_in_episode = @ \/ SaidDone(r)]

AfterReset ==
  [hist EXCEPT !.resets = @ + 1, !.calls = 0, !.done_in_episode = FALSE]

AfterRead == [hist EXCEPT !.reads = @ + 1]

\* step(_action_drl)
Step ==
  \E i \in {j \in StepInputs : j.a \in ActionsOf(self)} :
    \E r \in {step(Begin(self, "step"), i.a, i.nnOut, i.sim)} :
      /\ ~WaitingForever(self)
      /\ hist.total < MaxCalls
      /\ r.err # NoError => Detours < MaxDetours
      /\ self' = r
      /\ hist' = AfterStep(r, i)
      /\ UNCHANGED twin

\* reset()
Reset ==
  /\ ~WaitingForever(self)
  /\ Detours < MaxDetours
  /\ self' = reset(Begin(self, "reset"))
  /\ hist' = AfterReset
  /\ UNCHANGED twin

\* observation()
Observation ==
  /\ ~WaitingForever(self)
  /\ Detours < MaxDetours
  /\ self' = observation(Begin(self, "observation"))
  /\ hist' = AfterRead
  /\ UNCHANGED twin

\* done(), called by the caller rather than by step()
Done ==
  \E r \in {done(Begin(self, "done"))} :
    /\ ~WaitingForever(self)
    /\ Detours < MaxDetours
    /\ self' = r
    /\ hist' = AfterDone(r)
    /\ UNCHANGED twin

\* get_reward(_ventilation, _toplights, _heater), called by the caller
GetReward ==
  \E v \in {0, 1} :
    /\ ~WaitingForever(self)
    /\ Detours < MaxDetours
    /\ self' = get_reward(Begin(self, "get_reward"), v, 1 - v, v)
    /\ hist' = AfterRead
    /\ UNCHANGED twin

Next == Step \/ Reset \/ Observation \/ Done \/ GetReward

Spec == Init /\ [][Next]_vars

---------------------------------------------------------------------------
(* Two controllers side by side.  Both are built from one configuration and
   are given the same calls, the same actions, the same control and outdoor
   columns of the dataset and the same simulator outputs.  They differ in
   the measured inside climate of their dataset and in their predictor
   artifacts, hence in every predicted and every actual value. *)

InitTwin ==
  \E c \in Configs, sim \in FirstSimOutcomes :
    /\ self = Build(c, sim, 0)
    /\ twin = Build(c, sim, 1)
    /\ self.err = NoError
    /\ hist = HistInit(self, sim)

TwinStep ==
  \E i \in {j \in StepInputs : j.a \in ActionsOf(self)} :
    \E r \in {step(Begin(self, "step"), i.a, i.nnOut, i.sim)} :
      /\ ~WaitingForever(self)
      /\ hist.total < MaxCalls
      /\ r.err # NoError => Detours < MaxDetours
      /\ self' = r
      /\ twin' = step(Begin(twin, "step"), i.a, i.nnOut, i.sim)
      /\ hist' = AfterStep(r, i)

TwinReset ==
  /\ ~WaitingForever(self)
  /\ Detours < MaxDetours
  /\ self' = reset(Begin(self, "reset"))
  /\ twin' = reset(Begin(twin, "reset"))
  /\ hist' = AfterReset

TwinObservation ==
  /\ ~WaitingForever(self)
  /\ Detours < MaxDetours
  /\ self' = observation(Begin(self, "observation"))
  /\ twin' = observation(Begin(twin, "observation"))
  /\ hist' = AfterRead

TwinDone ==
  \E r \in {done(Begin(self, "done"))} :
    /\ ~WaitingForever(self)
    /\ Detours < MaxDetours
    /\ self' = r
    /\ twin' = done(Begin(twin, "done"))
    /\ hist' = AfterDone(r)

TwinGetReward ==
  \E v \in {0, 1} :
    /\ ~WaitingForever(self)
    /\ Detours < MaxDetours
    /\ self' = get_reward(Begin(self, "get_reward"), v, 1 - v, v)
    /\ twin' = get_reward(Begin(twin, "get_reward"), v, 1 - v, v)
    /\ hist' = AfterRead

NextTwin ==
  TwinStep \/ TwinReset \/ TwinObservation \/ TwinDone \/ TwinGetReward

SpecTwin == InitTwin /\ [][NextTwin]_vars

---------------------------------------------------------------------------
(* The properties *)

\* The history buffers of each source
GlBuffers(s) ==
  <<s.time_gl, s.co2_in_predicted_gl, s.temp_in_predicted_gl,
    s.rh_in_predicted_gl, s.PAR_in_predicted_gl, s.fruit_leaf_predicted_gl,
    s.fruit_stem_predicted_gl, s.fruit_dw_predicted_gl,
    s.fruit_cbuf_predicted_gl, s.fruit_tcansum_predicted_gl>>

NnBuffers(s) ==
  <<s.par_in_predicted_nn, s.temp_in_predicted_nn, s.rh_in_predicted_nn,
    s.co2_in_predicted_nn>>

ExcelBuffers(s) ==
  <<s.time_excel, s.global_out_excel, s.global_in_excel, s.temp_in_excel,
    s.temp_out_excel, s.rh_in_excel, s.rh_out_excel, s.co2_in_excel,
    s.co2_out_excel, s.toplights, s.ventilation, s.heater>>

HistoryBuffers(s) == GlBuffers(s) \o NnBuffers(s) \o ExcelBuffers(s)

\* The reward sequence and the control-action sequences
Lists(s) ==
  <<s.rewards_list, s.ventilation_list, s.toplights_list, s.heater_list>>

\* The last call was a step() that returned
StepReturned(s) == s.op = "step" /\ s.err = NoError

\* C1: within an episode started by reset(), the k-th step() call returns
\* terminated = True if and only if k >= max_steps.
C1_TerminatedIffMaxSteps ==
  StepReturned(self) => (self.terminated <=> hist.calls >= self.max_steps)

\* C1 witness: with max_steps = 2 the second step of an episode returned
\* terminated = True
C1_Witness ==
  /\ StepReturned(self)
  /\ self.max_steps = 2
  /\ hist.calls = 2
  /\ self.terminated

\* C2: every step() call increases current_step by exactly 1, reset() sets
\* it to 0, and observation(), done() and get_reward() leave it unchanged.
C2_EpochCounter ==
  [][/\ self'.op = "step" => self'.current_step = self.current_step + 1
     /\ self'.op = "reset" => self'.current_step = 0
     /\ self'.op \in {"observation", "done", "get_reward"}
          => self'.current_step = self.current_step]_vars

\* C2 witness: a step after a reset that followed a step
C2_Witness ==
  /\ self.op = "step"
  /\ hist.resets = 1
  /\ hist.total = 2
  /\ self.current_step = 1

\* What done() returns when it is evaluated in this state: it returns False
DoneIsFalse(s) ==
  \E r \in {done(Begin(s, "done"))} : r.err = NoError /\ ~r.terminated

\* C3 as stated: over any sequence of step() and reset() calls, once done()
\* has evaluated to true, it never evaluates to false afterwards.
C3_Original == hist.was_done => ~DoneIsFalse(self)

\* C3 amended: within one episode (no reset() in between), once done() has
\* evaluated to true, it never evaluates to false afterwards.
C3_DoneStaysTrueInEpisode == hist.done_in_episode => ~DoneIsFalse(self)

\* C3 witness: a step past the terminal one of the same episode returned
C3_Witness ==
  /\ StepReturned(self)
  /\ hist.resets = 0
  /\ hist.calls > self.max_steps

\* C4 as stated: every history buffer of every source has length
\* 4 * current_step.
C4_Original ==
  \A k \in 1..Len(HistoryBuffers(self)) :
    Len(HistoryBuffers(self)[k]) = 4 * self.current_step

\* C5 as stated: after n step() calls that returned, starting from the
\* reset() of the construction, rewards_list has length 4 * n.
C5_Original ==
  hist.resets = 0 => Len(self.rewards_list) = 4 * hist.returned

\* C5 amended: rewards_list has length 4 * (1 + m), where m counts the
\* step() calls since construction that recorded their reward: those that
\* returned, and those that raised only afterwards, in done().  The 4 zeros
\* of the construction are part of it, and no reset() removes anything.
C5_RewardsLength ==
  Len(self.rewards_list) = 4 * (1 + hist.returned + hist.late)

\* C5 witness: two steps returned, 12 rewards recorded
C5_Witness ==
  /\ hist.returned = 2
  /\ Len(self.rewards_list) = 12

\* All buffers of one source have one length
SameLength(bufs) ==
  \A j \in 1..Len(bufs), k \in 1..Len(bufs) : Len(bufs[j]) = Len(bufs[k])

\* Every buffer of bufs2 is 4 longer than it was in bufs1
GrownBy4(bufs1, bufs2) ==
  \A k \in 1..Len(bufs1) : Len(bufs2[k]) = Len(bufs1[k]) + 4

\* C6 as stated: in every state between operations all buffers of one
\* source have equal length, and each step() that returns grows each of
\* them by exactly 4.
C6_Original ==
  [][/\ SameLength(GlBuffers(self'))
     /\ SameLength(NnBuffers(self'))
     /\ SameLength(ExcelBuffers(self'))
     /\ StepReturned(self') /\ hist'.total = hist.total + 1
          => GrownBy4(HistoryBuffers(self), HistoryBuffers(self'))]_vars

\* C7 as stated: the length of every history buffer of every source is a
\* multiple of 4 in every reachable state.
C7_Original ==
  \A k \in 1..Len(HistoryBuffers(self)) :
    Len(HistoryBuffers(self)[k]) % 4 = 0

\* C8: every operation leaves each history buffer, the reward sequence and
\* each control-action sequence a prefix of what it is afterwards.
C8_AppendOnly ==
  [][/\ \A k \in 1..Len(HistoryBuffers(self)) :
          IsPrefix(HistoryBuffers(self)[k], HistoryBuffers(self')[k])
     /\ \A k \in 1..Len(Lists(self)) :
          IsPrefix(Lists(self)[k], Lists(self')[k])]_vars

\* C8 witness: a second step has appended to buffers that held two batches
C8_Witness ==
  /\ StepReturned(self)
  /\ hist.returned = 2
  /\ Len(self.time_gl) = 12
  /\ Len(self.time_excel) > 8
  /\ Len(self.rewards_list) = 12

\* The last call returned an observation
Observed(s) ==
  s.err = NoError /\ s.op \in {"__init__", "reset", "step", "observation"}

\* The last values of the authoritative buffers in the documented order
LastAuthoritative(s) ==
  <<Last(s.co2_in_predicted_gl), Last(s.temp_in_predicted_gl),
    Last(s.rh_in_predicted_gl), Last(s.PAR_in_predicted_gl),
    Last(s.fruit_leaf_predicted_gl), Last(s.fruit_stem_predicted_gl),
    Last(s.fruit_dw_predicted_gl), Last(s.fruit_cbuf_predicted_gl),
    Last(s.fruit_tcansum_predicted_gl)>>

\* The last sub-step of the trajectory in drl-env.mat, in the same order
LastReadBack(s) ==
  <<Last(s.drl_env_mat.co2_in), Last(s.drl_env_mat.temp_in),
    Last(s.drl_env_mat.rh_in), Last(s.drl_env_mat.PAR_in),
    Last(s.drl_env_mat.fruit_leaf), Last(s.drl_env_mat.fruit_stem),
    Last(s.drl_env_mat.fruit_dw), Last(s.drl_env_mat.fruit_cbuf),
    Last(s.drl_env_mat.fruit_tcansum)>>

IsPredictedOrActual(v) == v \in 2000..9999

\* The predicted and the actual buffers of the two controllers differ
DiagnosticsDiffer ==
  /\ self.temp_in_predicted_nn # twin.temp_in_predicted_nn
  /\ self.co2_in_predicted_nn # twin.co2_in_predicted_nn
  /\ self.temp_in_excel # twin.temp_in_excel
  /\ self.co2_in_excel # twin.co2_in_excel

LastFruitGrowth(s) ==
  s.fruit_dw_predicted_gl[Len(s.fruit_dw_predicted_gl)]
  - s.fruit_dw_predicted_gl[Len(s.fruit_dw_predicted_gl) - 1]

\* C11: the reward a step() returns is, in thousandths, 1000 times the
\* growth of the fruit dry weight between the last two samples held after
\* that step's read-back, minus 5 times the first sub-step ventilation, 15
\* times the first sub-step toplights and 1 times the first sub-step heater
\* of the control vector that step wrote.
C11_RewardFormula ==
  StepReturned(self) =>
    /\ Len(self.fruit_dw_predicted_gl) >= 2
    /\ self.reward = 1000 * LastFruitGrowth(self)
                      - (5 * self.controls_mat.ventilation[1]
                         + 15 * self.controls_mat.toplights[1]
                         + 1 * self.controls_mat.heater[1])

\* C11 witness: a second step returned the reward of a growth of 1 under
\* the controls (0, 1, 1)
C11_Witness ==
  /\ StepReturned(self)
  /\ hist.returned = 2
  /\ LastFruitGrowth(self) = 1
  /\ self.controls_mat.ventilation[1] = 0
  /\ self.controls_mat.toplights[1] = 1
  /\ self.controls_mat.heater[1] = 1
  /\ self.reward = 984

\* C12: a get_reward() call made while the epoch counter is 0 returns
\* exactly 0, whatever the control values it is given and whatever the
\* buffers hold, and the four rewards recorded at construction are 0.
C12_InitialRewardZero ==
  /\ Len(self.rewards_list) >= 4
  /\ \A k \in 1..4 : self.rewards_list[k] = 0
  /\ (self.op = "get_reward" /\ self.current_step = 0) =>
       (self.err = NoError /\ self.reward = 0)

\* C12 witness: get_reward() was called at epoch counter 0 while the last
\* two fruit dry weights of the buffer differ
C12_Witness ==
  /\ self.op = "get_reward"
  /\ self.current_step = 0
  /\ Len(self.fruit_dw_predicted_gl) >= 2
  /\ LastFruitGrowth(self) # 0
  /\ self.reward = 0

\* An action of three components within [0, 1] (in tenths)
InUnitCube(a) ==
  /\ a.kind # "None"
  /\ Len(a.v) = 3
  /\ \A k \in 1..3 : a.v[k] \in 0..10

\* The last call was a step() that saved a control vector
StepSavedControls(s) ==
  s.op = "step" /\ Happened(s, "savemat controls.mat")

\* The four sub-step values of a component x of an action: 1 when x is at
\* least 0.5, else 0
Repeated(x) == [k \in 1..4 |-> IF x >= 5 THEN 1 ELSE 0]

SimulatorInvoked(s) == Happened(s, "DrlGlEnvironment")

\* C14: whenever the simulator is invoked, at construction or in a step() of
\* either mode, the control vector it is handed was saved in the same call
\* and carries exactly the timestamps 300, 600, 900, 1200.
C14_ControlTimestamps ==
  SimulatorInvoked(self) =>
    /\ Happened(self, "savemat controls.mat")
    /\ self.matlab_args.controls_file = "controls.mat"
    /\ self.controls_mat.time = <<300, 600, 900, 1200>>

\* C14 witness: the simulator was invoked in a second step() that returned,
\* at a later epoch than that of construction
C14_Witness ==
  /\ StepReturned(self)
  /\ SimulatorInvoked(self)
  /\ hist.returned = 2
  /\ self.current_step = 2
  /\ self.controls_mat.time = <<300, 600, 900, 1200>>

\* The 4 sub-step values of a control channel are one value
Broadcast(channel) ==
  Len(channel) = 4 /\ \A k \in 1..4 : channel[k] = channel[1]

\* C15: in every epoch and in both modes, the 4 sub-step values of each
\* channel of the control vector a step() saves are identical, so the first
\* value, the one the reward uses, equals the other three.
C15_Original ==
  StepSavedControls(self) =>
    /\ Broadcast(self.controls_mat.ventilation)
    /\ Broadcast(self.controls_mat.toplights)
    /\ Broadcast(self.controls_mat.heater)

\* The last call invoked the predictor
PredictorInvoked(s) == Happened(s, "predict_inside_measurements")

\* C16: in every call that invokes both the predictor and the simulator, the
\* construction and each step(), the ventilation, toplights and heater
\* columns of the feature window the predictor was given equal the control
\* vector saved for the simulator.
C16_Original ==
  (PredictorInvoked(self) /\ SimulatorInvoked(self)) =>
    /\ Column(self.step_data, "ventilation") = self.controls_mat.ventilation
    /\ Column(self.step_data, "toplights") = self.controls_mat.toplights
    /\ Column(self.step_data, "heater") = self.controls_mat.heater

\* An action that is not a 3-vector within [0, 1]: another arity, or a
\* component outside [0, 1] (in tenths)
InvalidAction(a) ==
  /\ a.kind # "None"
  /\ \/ Len(a.v) # 3
     \/ \E k \in 1..Len(a.v) : a.v[k] \notin 0..10

\* A recorded statement that calls the predictor, the simulator or the
\* telemetry channel, or that reads, writes or removes a file
ExternalCall(e) ==
  e \notin {"current_step += 1", "get_reward", "rewards_list.extend", "done"}

\* C17: an agent-driven step() given an invalid action raises before any
\* external call (predictor, simulator, file write, telemetry) and leaves the
\* epoch counter, the dataset cursor and every buffer as they were.
C17_Original ==
  [][(/\ self'.op = "step"
      /\ hist'.total = hist.total + 1
      /\ self.flag_action_from_drl
      /\ InvalidAction(hist'.action)) =>
       (/\ self'.err # NoError
        /\ \A k \in 1..Len(self'.trace) : ~ExternalCall(self'.trace[k])
        /\ self'.current_step = self.current_step
        /\ self'.season_length_nn = self.season_length_nn
        /\ HistoryBuffers(self') = HistoryBuffers(self)
        /\ Lists(self') = Lists(self))]_vars

\* C18: a step() in which the predictor raises still saves the control
\* vector and invokes the simulator and, unless the simulator raises too,
\* reads its trajectory back and returns observation, reward and terminated.
C18_Original ==
  (self.op = "step" /\ hist.nn_failed) =>
    /\ StepSavedControls(self)
    /\ SimulatorInvoked(self)
    /\ \/ hist.sim_failed
       \/ /\ StepReturned(self)
          /\ Happened(self, "loadmat drl-env.mat")
          /\ Len(self.obs) = 9

\* C19: a step() in which the simulator raises ends with that error: it
\* returns no observation and no reward, it does not read drl-env.mat, and
\* every authoritative buffer is left as it was before the call.
C19_SimulatorFailureAborts ==
  [][(/\ self'.op = "step"
      /\ hist'.total = hist.total + 1
      /\ hist'.sim_failed) =>
       (/\ self'.err = "MatlabExecutionError"
        /\ self'.obs = <<>>
        /\ ~Happened(self', "get_reward")
        /\ ~Happened(self', "loadmat drl-env.mat")
        /\ GlBuffers(self') = GlBuffers(self))]_vars

\* C19 witness: the simulator raised in a step() that followed one that
\* returned, while drl-env.mat of the earlier run was still in place
C19_Witness ==
  /\ self.op = "step"
  /\ hist.sim_failed
  /\ hist.returned = 1
  /\ hist.total = 2
  /\ "drl-env.mat" \in self.files
  /\ self.err = "MatlabExecutionError"
  /\ Len(self.time_gl) > 4

\* The window the last step() read from the dataset has fewer than 4 rows
ShortWindow(s) == s.op = "step" /\ Len(s.step_data) < 4

\* C20: a step() whose dataset window has fewer than 4 rows raises; the
\* short window is neither appended to the actual-measurement buffers and
\* handed to the predictor, nor used for the control vector.
C20_Original ==
  ShortWindow(self) =>
    /\ self.err # NoError
    /\ ~PredictorInvoked(self)
    /\ ~StepSavedControls(self)

\* C21: no step() call is left waiting for the simulator forever: when the
\* simulator never responds, the call ends with a failure of its own kind.
C21_Original == ~(self.op = "step" /\ WaitingForever(self))

\* The call that led from s to t exported the history, or removed an
\* exchange file
Exported(s, t) == t.exports > s.exports
Cleaned(t) == Happened(t, "os.remove")

\* C22: in the run mode, a call exports the history or cleans the exchange
\* files up only if done() has not yet been true in the episode: a further
\* step() or done() call made while the epoch counter is still at least
\* max_steps exports nothing and removes nothing.
C22_Original ==
  [][(self.flag_run /\ hist.done_in_episode) =>
       (~Exported(self, self') /\ ~Cleaned(self'))]_vars

\* The positions of the event e among the statements of the last call
Positions(s, e) == {k \in 1..Len(s.trace) : s.trace[k] = e}

StepEnded(h, g, t) ==
  t.op = "step" /\ g.total = h.total + 1 /\ ~WaitingForever(t)
ResetCalled(h, g) == g.resets = h.resets + 1

\* The rows mgh_data[a : a + 4], all four of them
FourRowsAt(data, a) == [k \in 1..4 |-> data[a + k]]

\* No row of the dataset was appended twice to the actual-measurement
\* buffers: the recorded times are all different
NoRowTwice(s) ==
  \A j, k \in 1..Len(s.time_excel) :
    s.time_excel[j] = s.time_excel[k] => j = k

\* C24: the dataset cursor advances by exactly 4 in every step() that ends
\* and in every reset(), and no other call changes it; the window a step()
\* reads is the 4 rows at the cursor it was entered with; and no row is read
\* by two steps.
C24_Original ==
  [][/\ StepEnded(hist, hist', self') =>
          /\ self'.season_length_nn = self.season_length_nn + 4
          /\ Len(self.mgh_data) >= self.season_length_nn + 4
          /\ self'.step_data = FourRowsAt(self.mgh_data, self.season_length_nn)
     /\ ResetCalled(hist, hist') =>
          self'.season_length_nn = self.season_length_nn + 4
     /\ (~StepEnded(hist, hist', self') /\ ~ResetCalled(hist, hist')) =>
          self'.season_length_nn = self.season_length_nn
     /\ NoRowTwice(self')]_vars

C26_Original ==
  SimulatorInvoked(self) =>
    self.matlab_args.season_length = hist.env_config_season_length_gl

\* The landmarks of a step(), in the order the claim gives them
StepOrder ==
  <<"current_step += 1", "predict_inside_measurements",
    "savemat controls.mat", "savemat indoor.mat", "savemat fruit.mat",
    "DrlGlEnvironment", "loadmat drl-env.mat", "get_reward", "done">>

\* The landmarks among the statements of the last call, in the order they
\* happened
Landmarks(s) ==
  SelectSeq(s.trace, LAMBDA e : \E k \in 1..Len(StepOrder) : StepOrder[k] = e)

\* C27: the landmarks of every step() happen in the order: epoch counter
\* incremented, predictor run, control vector saved, indoor state and crop
\* state saved, simulator invoked, trajectory read back, reward computed,
\* done() evaluated; a step() that raises has gone through a beginning of
\* that order, one that returns through all of it.  So the simulator is
\* never invoked before the three exchange files are written, nor the
\* reward computed before the trajectory of the step is read back.
C27_StepOrder ==
  self.op = "step" =>
    /\ IsPrefix(Landmarks(self), StepOrder)
    /\ StepReturned(self) => Landmarks(self) = StepOrder

\* C27 witness: a step() returned after all nine landmarks
C27_Witness ==
  /\ StepReturned(self)
  /\ Len(Landmarks(self)) = 9
  /\ hist.returned = 2

\* The authoritative, predicted and actual buffers of one climate quantity
\* are of one length
Aligned(gl, nn, excel) == Len(gl) = Len(nn) /\ Len(nn) = Len(excel)

\* C28: as long as every step() has returned, the authoritative, predicted
\* and actual buffers of PAR, temperature, humidity and CO2 have the same
\* length, so that evaluate_predictions compares sequences of one length.
C28_Original ==
  hist.aborts = 0 =>
    /\ Aligned(self.PAR_in_predicted_gl, self.par_in_predicted_nn,
               self.global_in_excel)
    /\ Aligned(self.temp_in_predicted_gl, self.temp_in_predicted_nn,
               self.temp_in_excel)
    /\ Aligned(self.rh_in_predicted_gl, self.rh_in_predicted_nn,
               self.rh_in_excel)
    /\ Aligned(self.co2_in_predicted_gl, self.co2_in_predicted_nn,
               self.co2_in_excel)

\* The sequences print_and_save_all_data hands to export_to_excel next to
\* the time axis (lines 814-819)
ExportedColumns(s) ==
  <<s.ventilation_list, s.toplights_list, s.heater_list, s.rewards_list,
    s.co2_in_excel, s.temp_in_excel, s.rh_in_excel, s.global_in_excel,
    s.co2_in_predicted_nn, s.temp_in_predicted_nn, s.rh_in_predicted_nn,
    s.par_in_predicted_nn, s.co2_in_predicted_gl, s.temp_in_predicted_gl,
    s.rh_in_predicted_gl, s.PAR_in_predicted_gl>>

\* C29: whenever done() exports, the time axis range(0, season_length_nn)
\* is as long as every exported sequence, in every episode.
C29_Original ==
  Happened(self, "export_to_excel") =>
    \A k \in 1..Len(ExportedColumns(self)) :
      Len(ExportedColumns(self)[k]) = self.season_length_nn

\* C30: in every state after construction the reward sequence and the three
\* control-action sequences have the same length, whether or not the
\* simulator script was found at construction.
C30_Original == SameLength(Lists(self))

\* C31: a step() that aborts because the simulator raises is atomic: the
\* epoch counter, the dataset cursor, the day offset of the simulator, the
\* predicted and actual buffers and the control-action sequences have the
\* values they had before the call.
C31_Original ==
  [][(/\ self'.op = "step"
      /\ hist'.total = hist.total + 1
      /\ hist'.sim_failed) =>
       (/\ self'.current_step = self.current_step
        /\ self'.season_length_nn = self.season_length_nn
        /\ self'.first_day_gl = self.first_day_gl
        /\ NnBuffers(self') = NnBuffers(self)
        /\ ExcelBuffers(self') = ExcelBuffers(self)
        /\ self'.ventilation_list = self.ventilation_list
        /\ self'.toplights_list = self.toplights_list
        /\ self'.heater_list = self.heater_list)]_vars

===========================================================================
